---- MODULE Spec2Model ----
(***************************************************************************)
(* A model of backend/app.py (DAD, the database administration dashboard): *)
(* DatabaseManager's port allocation, environment creation, replication   *)
(* wiring, status reconciliation and deletion, with the container runtime  *)
(* and the file system as nondeterministic collaborators.                  *)
(***************************************************************************)
EXTENDS Integers, Sequences, FiniteSets, TLC

VARIABLES
    environments,   \* self.environments: env id -> env_data (the in-memory index)
    disk,           \* ids with a saved ENVIRONMENTS_DIR/<id>.json (read back only by __init__)
    composeFiles,   \* ids whose ENVIRONMENTS_DIR/<id>/docker-compose.yml exists
    clock,          \* datetime.now(), in whole seconds
    pc,             \* per request thread: the position of its handler
    ctx,            \* per request thread: the handler's local variables
    aArgs,          \* arguments and probe results of one find_free_ports call
    aResult         \* what that find_free_ports call returned or raised

vars == <<environments, disk, composeFiles, clock, pc, ctx, aArgs, aResult>>

----------------------------------------------------------------------------
(* Bounds of the model and constants of the program *)

\* find_free_ports' default start_port, and the one generate_compose_file passes
StartPort == 10001
\* the width of the modelled port range: the program's range ends at 65535
PortSpan == 4
\* the top of the valid port range (65535 in the program, StartPort + PortSpan here)
TopPort == StartPort + PortSpan
\* the container-side port of every mapping
ContainerPort == 3306
\* the largest replica_count a request of the model asks for (the API admits 1..10)
MaxReplicas == 1
\* the last second of the modelled clock
MaxClock == 1
\* the rounds each waiting loop of _configure_replication makes at most (60
\* in the program)
max_retries == 2
\* the largest exit code a command of the model ends with (255 in a shell)
MaxReturnCode == 5
\* the largest signal number a command of the model is killed by
MaxSignal == 2

Ports == StartPort..TopPort
Range(s) == {s[i] : i \in DOMAIN s}
----------------------------------------------------------------------------
(* find_free_ports *)

\* lines 65-70: host ports recorded in every known environment's 'ports'
EnvHostPorts(envs) ==
    UNION {{envs[id].ports[i].host : i \in DOMAIN envs[id].ports} : id \in DOMAIN envs}

\* lines 72-82: ports parsed from `docker ps`, when the command succeeded
DockerPsPorts(dockerPs) == IF dockerPs.success THEN dockerPs.ports ELSE {}

\* lines 84-112: ports parsed from `docker compose ps` of each environment
\* that has a compose file, when that command succeeded
ComposePsPorts(envs, files, composePs) ==
    UNION {IF composePs[id].success THEN composePs[id].ports ELSE {}
           : id \in (DOMAIN envs) \cap files}

UsedPorts(envs, files, dockerPs, composePs) ==
    EnvHostPorts(envs) \cup DockerPsPorts(dockerPs) \cup ComposePsPorts(envs, files, composePs)

\* line 124 without its second test: the connect probe alone decides
PortIsFree_ProbeOnly(port, used, listening) == port \notin listening

\* line 124 without its first test: the used set alone decides
PortIsFree_UsedOnly(port, used, listening) == port \notin used

\* line 124: connect_ex fails (nothing listens) and the port is not in used_ports
PortIsFree(port, used, listening) == port \notin listening /\ port \notin used

\* line 115: the loop condition of the scan
ScanContinues(free_ports, current_port, count) ==
    Len(free_ports) < count /\ current_port < TopPort

\* lines 114-128: the ascending scan
RECURSIVE ScanPorts(_, _, _, _, _)
ScanPorts(free_ports, current_port, count, used, listening) ==
    IF ScanContinues(free_ports, current_port, count)
    THEN ScanPorts(IF PortIsFree(current_port, used, listening)
                   THEN Append(free_ports, current_port)
                   ELSE free_ports,
                   current_port + 1, count, used, listening)
    ELSE free_ports

\* lines 59-133: the list of free ports, or the exception of line 131
FindFreePorts(envs, files, dockerPs, composePs, listening, count, start_port) ==
    LET used == UsedPorts(envs, files, dockerPs, composePs)
        free_ports == ScanPorts(<<>>, start_port, count, used, listening)
    IN  IF Len(free_ports) < count
        THEN [raised |-> TRUE, ports |-> <<>>]
        ELSE [raised |-> FALSE, ports |-> free_ports]

----------------------------------------------------------------------------
(* Environment records *)

DbTypes == {"mysql"}
DbVersions == {"8.0"}
\* "" stands for a request without a name (`if name:` is false for both)
Names == {""}
ReplicaCounts == 1..MaxReplicas

\* line 774 without its upper limit
ValidReplicaCount_NoUpperBound(replica_count) == ~(replica_count < 1)

\* line 774 of the route: replica_count is neither below 1 nor above 10
ValidReplicaCount(replica_count) == ~(replica_count < 1 \/ replica_count > 10)

\* the replica_count of a request (line 768): any integer, here the counts
\* the model creates with and one on either side of the admitted interval
RequestedReplicaCounts == {0} \cup ReplicaCounts \cup {11}
Threads == {"t1"}

\* lines 170-173: db_type, db_version and the timestamp to the second, behind
\* the name when there is one
EnvId(db_type, db_version, name, now) == <<name, db_type, db_version, now>>

\* lines 175-185: the record create_environment starts from (replication_type
\* and created_at are carried by the program and never read by it)
EnvData(db_type, db_version, name, replica_count, now) ==
    [id            |-> EnvId(db_type, db_version, name, now),
     db_type       |-> db_type,
     db_version    |-> db_version,
     replica_count |-> replica_count,
     status        |-> "creating",
     error         |-> <<>>,
     containers    |-> <<>>,
     ports         |-> <<>>]

\* lines 314-321 and 326-333: 'source' is entry 1, 'replica<i>' entry i + 1
PortAssignments(free_ports, replica_count) ==
    [i \in 1..(1 + replica_count) |-> [host |-> free_ports[i], container |-> ContainerPort]]

\* line 325: list(range(10001, 10001 + total_containers))
FallbackPorts(total_containers) == [i \in 1..total_containers |-> StartPort + i - 1]

\* lines 310-333: the port part of generate_compose_file; alloc is what
\* find_free_ports returned or raised
GenerateComposeFile(env_data, alloc) ==
    LET total_containers == 1 + env_data.replica_count
        free_ports == IF alloc.raised THEN FallbackPorts(total_containers) ELSE alloc.ports
    IN  [env_data EXCEPT !.ports = PortAssignments(free_ports, env_data.replica_count)]

HostPortsOf(env_data) == {env_data.ports[i].host : i \in DOMAIN env_data.ports}

----------------------------------------------------------------------------
(* What the collaborators answer *)

\* the ports one answer of the runtime, or one probe of the host, shows taken
ExternalPortSets == {{}} \cup {{p} : p \in Ports}

\* `docker ps --format {{.Ports}}` as find_free_ports reads it: success and
\* the host ports matched by :(\d+)->
PortQueryResults ==
    {[success |-> FALSE, ports |-> {}]}
    \cup {[success |-> TRUE, ports |-> S] : S \in ExternalPortSets}

\* `docker compose ps --format json` of one environment's compose file, read
\* the same way: its containers publish the ports the file maps, or none do
ComposeQueryResults(env_data) ==
    {[success |-> FALSE, ports |-> {}]}
    \cup {[success |-> TRUE, ports |-> S] : S \in {{}, HostPortsOf(env_data)}}

\* one answer for each environment find_free_ports asks about (line 85-92)
ComposeAnswers(envs, files) ==
    LET ids == (DOMAIN envs) \cap files
        all == UNION {ComposeQueryResults(envs[id]) : id \in ids}
    IN  {composePs \in [ids -> all] :
            \A id \in ids : composePs[id] \in ComposeQueryResults(envs[id])}

\* a container's State as the program tells states apart: 'running' against
\* the rest ('exited' stands for exited, dead and created)
ContainerStates == {"running", "exited"}

\* a container of an environment is named <env id>_source or <env id>_replica<i>;
\* within one environment the model names it by its role: 0 is the source,
\* i is replica i
Roles(replica_count) == 0..replica_count

RoleAt(S, i) == CHOOSE r \in S : Cardinality({q \in S : q < r}) = i - 1

\* what the runtime can list for one environment: any subset of its
\* containers, each in some state, in role order
Observations(replica_count) ==
    UNION {{[i \in 1..Cardinality(S) |-> [name |-> RoleAt(S, i), state |-> st[RoleAt(S, i)]]]
            : st \in [S -> ContainerStates]}
           : S \in SUBSET Roles(replica_count)}

\* `docker compose ps -a --format json`: whether the command succeeded, and how
\* its stdout lists the containers: "lines", one JSON object per line (nothing
\* at all for no container), or "array", one JSON array holding them all
PsOutputs(replica_count) ==
    {[success |-> FALSE, format |-> "lines", items |-> <<>>]}
    \cup {[success |-> TRUE, format |-> f, items |-> o]
          : f \in {"lines", "array"}, o \in Observations(replica_count)}

\* line 227: containers_output, stripped, is empty
OutputIsEmpty(ps) == ps.format = "lines" /\ ps.items = <<>>

\* lines 233-256 of create_environment: json.loads of each line; only a line
\* that is a JSON object yields an entry. An array parses (line 238, or line 245
\* for one spread over several lines) to one list, which is no dict (line 250)
ParsePsByLine(ps) == IF ps.format = "lines" THEN ps.items ELSE <<>>

\* lines 698-708 of list_environments: json.loads of the whole stdout, which
\* raises on empty text and on more than one document; a lone object is
\* wrapped in a list
ParsePsWhole(ps) ==
    IF ps.format = "array"
    THEN [raised |-> FALSE, container_info |-> ps.items]
    ELSE IF Len(ps.items) = 1
         THEN [raised |-> FALSE, container_info |-> ps.items]
         ELSE [raised |-> TRUE, container_info |-> <<>>]

\* lines 277 and 711: how many entries are in state 'running'
RunningCount(container_info) ==
    Cardinality({i \in DOMAIN container_info : container_info[i].state = "running"})

ContainerNames(container_info) == [i \in DOMAIN container_info |-> container_info[i].name]

\* the stderr of `docker compose up -d`, by what line 294 looks for
StderrKinds == {"address already in use", "port", "other", "Command timed out"}

\* line 294 looking for 'address already in use' alone
PortConflictSignature_AddressOnly(stderr) == stderr = "address already in use"

\* line 294: 'address already in use' or 'port' occurs in stderr
PortConflictSignature(stderr) == stderr \in {"address already in use", "port"}

\* what run_docker_command returns for `docker compose up -d` (lines 206-209)
\* when a start that worked leaves stderr empty
UpResults ==
    {[success |-> TRUE, stderr |-> ""]}
    \cup {[success |-> FALSE, stderr |-> e] : e \in StderrKinds}

\* the same with the progress lines of a start that worked: they go to
\* stderr and name the containers, so that they hold 'port' when the name of
\* the environment does
UpResultsWithProgress ==
    UpResults \cup {[success |-> TRUE, stderr |-> "port"]}

\* line 211 taking a start for failed also when its stderr has the signature
StartSucceeded_UnlessSignature(result) ==
    result.success /\ ~PortConflictSignature(result.stderr)

\* line 211: `if result['success']`
StartSucceeded(result) == result.success

----------------------------------------------------------------------------
(* create_environment *)

Put(map, key, value) ==
    [k \in (DOMAIN map) \cup {key} |-> IF k = key THEN value ELSE map[k]]

\* lines 675-676 without the del
Drop_Nothing(map, key) == map

\* lines 675-676: del self.environments[env_id]
\* line 676 clearing the whole index
Drop_Everything(map, key) == <<>>

Drop(map, key) == [k \in (DOMAIN map) \ {key} |-> map[k]]

NoEnv == EnvData("", "", "", 0, 0)

\* what _configure_replication has done so far (lines 507-508 at its entry)
NoWiring ==
    [tries        |-> 0,       \* rounds made of the loop it is in (i or j + 1)
     source_ready |-> FALSE,
     i            |-> 0,       \* the replica it is at
     seen         |-> {},      \* what the rounds of the source loop have met
     last         |-> [ping |-> FALSE, checked |-> FALSE, user_check |-> [success |-> FALSE, count |-> 0]],
     probed       |-> {},      \* replicas that were pinged
     rounds       |-> <<>>,    \* for each of them, how many times (when kept)
     skipped      |-> {},      \* replicas given up at line 549
     configured   |-> {},      \* replicas that were sent the replication statements
     sent         |-> <<>>]    \* what the latest of them was sent, in order (when kept)

\* the locals of a handler; cmds is the list of commands it has handed to
\* run_docker_command outside _configure_replication, whose progress is in w
NewCtx(op) ==
    [op             |-> op,
     args           |-> <<>>,    \* the arguments of the request
     faults         |-> {},      \* what went wrong and was only logged or collected
     w              |-> NoWiring,
     env_data       |-> NoEnv,
     linked         |-> FALSE,   \* env_data is the object environments[id] holds
     raised         |-> FALSE,   \* find_free_ports raised (line 131)
     up             |-> [success |-> FALSE, stderr |-> ""],
     polled         |-> FALSE,   \* lines 218-221 ran
     container_info |-> <<>>,
     wiring         |-> FALSE,   \* _configure_replication was entered (line 282)
     cmds           |-> <<>>,
     todo           |-> {},
     result         |-> [success |-> FALSE]]

\* lines 292-298: a failed start
StartFailed(env_data, result) ==
    [env_data EXCEPT
        !.error = IF PortConflictSignature(result.stderr)
                  THEN <<"Port conflict detected.", result.stderr>>
                  ELSE <<result.stderr>>,
        !.status = "error"]

\* lines 228-229: stdout of the status query is empty
NoneAfterCreation(env_data) ==
    [env_data EXCEPT !.status = "error",
                     !.error = <<"No containers found after creation">>]

\* lines 275-291 with line 278 asking for one running container, not for all
DetermineStatus_AnyRunning(env_data, container_info) ==
    IF container_info # <<>>
    THEN IF RunningCount(container_info) > 0
         THEN [env_data EXCEPT !.status = "running"]
         ELSE [env_data EXCEPT
                  !.status = "error",
                  !.error = <<"All containers failed to start. Check container logs.">>]
    ELSE [env_data EXCEPT !.status = "error", !.error = <<"No containers found">>]

\* lines 275-291: the status create_environment derives from container_info
DetermineStatus(env_data, container_info) ==
    LET running_count == RunningCount(container_info)
    IN  IF container_info # <<>>
        THEN IF running_count = Len(container_info)
             THEN [env_data EXCEPT !.status = "running"]
             ELSE IF running_count > 0
                  THEN [env_data EXCEPT
                           !.status = "partial",
                           !.error = <<"Some containers are not running. Running:",
                                       running_count, Len(container_info)>>]
                  ELSE [env_data EXCEPT
                           !.status = "error",
                           !.error = <<"All containers failed to start. Check container logs.">>]
        ELSE [env_data EXCEPT !.status = "error", !.error = <<"No containers found">>]

\* lines 276-282: replication is configured when every listed container runs
WiringDue(container_info) ==
    container_info # <<>> /\ RunningCount(container_info) = Len(container_info)

\* lines 259-264: `docker logs` of each listed container that is not running
LogCommands(container_info) ==
    LET idx == {i \in DOMAIN container_info : container_info[i].state # "running"}
    IN  [k \in 1..Cardinality(idx) |-> <<"docker logs", container_info[RoleAt(idx, k)].name>>]

\* lines 73 and 89: the commands find_free_ports runs
PortQueryCommands(envs, files) ==
    LET ids == (DOMAIN envs) \cap files
    IN  <<<<"docker ps">>>> \o [k \in 1..Cardinality(ids) |-> <<"docker compose ps">>]

\* a write through env_data: it is seen in environments when env_data is the
\* object the index holds
Mutated(envs, c, env_data) ==
    IF c.linked /\ env_data.id \in DOMAIN envs THEN Put(envs, env_data.id, env_data) ELSE envs

\* lines 774-775 of the route: the request is answered with status 400 and
\* DatabaseManager.create_environment is not called
CreateReject(t) ==
    /\ pc[t] = "idle"
    /\ \E replica_count \in RequestedReplicaCounts :
        /\ ~ValidReplicaCount(replica_count)
        /\ ctx' = [ctx EXCEPT ![t] =
                      [NewCtx("create") EXCEPT
                          !.args = [replica_count |-> replica_count],
                          !.result = [success |-> FALSE, stderr |-> "",
                                      error |-> "replica_count must be between 1 and 10"]]]
    /\ pc' = [pc EXCEPT ![t] = "done"]
    /\ UNCHANGED <<environments, disk, composeFiles, clock, aArgs, aResult>>

\* lines 774-785 of the route and lines 168-188: an admitted request; build
\* env_data and let generate_compose_file assign its ports
CreateBegin(t) ==
    /\ pc[t] = "idle"
    /\ \E db_type \in DbTypes, db_version \in DbVersions, name \in Names,
          replica_count \in RequestedReplicaCounts,
          dockerPs \in PortQueryResults,
          composePs \in ComposeAnswers(environments, composeFiles),
          listening \in ExternalPortSets :
        /\ ValidReplicaCount(replica_count)
        /\ LET alloc == FindFreePorts(environments, composeFiles, dockerPs, composePs,
                                      listening, 1 + replica_count, StartPort)
               env_data == GenerateComposeFile(
                               EnvData(db_type, db_version, name, replica_count, clock), alloc)
           IN  ctx' = [ctx EXCEPT ![t] =
                          [NewCtx("create") EXCEPT
                              !.args = [replica_count |-> replica_count],
                              !.env_data = env_data,
                              !.raised = alloc.raised,
                              !.cmds = PortQueryCommands(environments, composeFiles)]]
    /\ pc' = [pc EXCEPT ![t] = "start"]
    /\ UNCHANGED <<environments, disk, composeFiles, clock, aArgs, aResult>>

\* lines 190-209, and lines 292-301 when the start fails
CreateStartWith(t, results) ==
    /\ pc[t] = "start"
    /\ \E result \in results :
        LET c == ctx[t]
            id == c.env_data.id
            failed == StartFailed(c.env_data, result)
            cmds == Append(c.cmds, <<"docker compose up">>)
        IN  /\ composeFiles' = composeFiles \cup {id}
            /\ IF StartSucceeded(result)
               THEN /\ environments' = Put(environments, id, c.env_data)
                    /\ disk' = disk \cup {id}
                    /\ ctx' = [ctx EXCEPT ![t] =
                                  [c EXCEPT !.linked = TRUE, !.up = result, !.cmds = cmds]]
                    /\ pc' = [pc EXCEPT ![t] = "poll"]
               ELSE /\ environments' = Put(environments, id, failed)
                    /\ disk' = disk \cup {id}
                    /\ ctx' = [ctx EXCEPT ![t] =
                                  [c EXCEPT !.linked = TRUE, !.up = result, !.cmds = cmds,
                                            !.env_data = failed,
                                            !.result = [success |-> FALSE, stderr |-> result.stderr,
                                                        env_data |-> failed]]]
                    /\ pc' = [pc EXCEPT ![t] = "done"]
    /\ UNCHANGED <<clock, aArgs, aResult>>

CreateStart(t) == CreateStartWith(t, UpResults)

\* lines 211-291 but for the call of line 282, and lines 300-301 when
\* replication is not to be configured
CreatePoll(t) ==
    /\ pc[t] = "poll"
    /\ \E containers_result \in PsOutputs(ctx[t].env_data.replica_count) :
        LET c == ctx[t]
            early == containers_result.success /\ OutputIsEmpty(containers_result)
            container_info == IF containers_result.success
                              THEN ParsePsByLine(containers_result) ELSE <<>>
            listed == IF containers_result.success
                      THEN [c.env_data EXCEPT !.containers = ContainerNames(container_info)]
                      ELSE c.env_data
            env_data == IF early THEN NoneAfterCreation(c.env_data)
                        ELSE DetermineStatus(listed, container_info)
            wire == ~early /\ WiringDue(container_info)
            cmds == Append(c.cmds, <<"docker compose ps">>)
                    \o (IF early THEN <<>> ELSE LogCommands(container_info))
            c2 == [c EXCEPT !.env_data = env_data, !.polled = TRUE,
                            !.container_info = container_info, !.cmds = cmds]
        IN  /\ environments' = Mutated(environments, c, env_data)
            /\ IF wire
               THEN /\ ctx' = [ctx EXCEPT ![t] = c2]
                    /\ pc' = [pc EXCEPT ![t] = "wire"]
                    /\ disk' = disk
               ELSE /\ ctx' = [ctx EXCEPT ![t] =
                                  [c2 EXCEPT !.result = [success |-> TRUE, stderr |-> "",
                                                         env_data |-> env_data]]]
                    /\ pc' = [pc EXCEPT ![t] = "done"]
                    /\ disk' = disk \cup {env_data.id}
    /\ UNCHANGED <<composeFiles, clock, aArgs, aResult>>

\* line 282: _configure_replication is entered (lines 500-508)
CreateWire(t) ==
    /\ pc[t] = "wire"
    /\ ctx' = [ctx EXCEPT ![t] =
                  [ctx[t] EXCEPT !.wiring = TRUE,
                                 !.w = NoWiring,
                                 !.cmds = Append(ctx[t].cmds, <<"configure replication">>)]]
    /\ pc' = [pc EXCEPT ![t] = "wire_source"]
    /\ UNCHANGED <<environments, disk, composeFiles, clock, aArgs, aResult>>

----------------------------------------------------------------------------
(* _configure_replication *)

\* the decimal digits of n include a 1
RECURSIVE HasDigitOne(_)
HasDigitOne(n) == (n % 10 = 1) \/ (n >= 10 /\ HasDigitOne(n \div 10))

\* how many accounts named 'repl' the source has: the row that the query of
\* line 518 prints under its COUNT(*) header
UserCounts == {0, 1, 2}

\* the answers to the user check of lines 517-520
UserCheckResults ==
    {[success |-> FALSE, count |-> 0]} \cup {[success |-> TRUE, count |-> n] : n \in UserCounts}

\* line 521 taking any answered query for a confirmation
UserConfirmed_AnyAnswer(user_check) == user_check.success

\* line 521: the query succeeded and its output holds a '1' (neither the
\* header nor a count holds 'repl')
UserConfirmed(user_check) == user_check.success /\ HasDigitOne(user_check.count)

\* what one round of the source loop met (lines 511-523)
SourceMet(ping, user_check) ==
    IF ~ping THEN "no ping"
    ELSE IF ~user_check.success THEN "check failed"
    ELSE IF UserConfirmed(user_check) THEN "ready"
    ELSE IF user_check.count = 0 THEN "no credential"
    ELSE "not confirmed"

\* the answers to SHOW REPLICA STATUS (lines 629-635): the command failed, or
\* its output has the line `Replica_IO_Running: Yes` or has it not
StatusAnswers == {"failed", "io running", "io not running"}

\* _configure_replication with a failure of its own turned into a failed environment
AfterWiring_FailsOnFault(env_data, faults) ==
    IF faults # {} THEN [env_data EXCEPT !.status = "error"] ELSE env_data

\* lines 498-644 as far as env_data goes: nothing in them assigns to it,
\* whatever was logged
AfterWiring(env_data, faults) == env_data

\* lines 509 and 537 going round without end
RoundsLeft_Always(tries) == TRUE

\* lines 509 and 537: `for ... in range(max_retries)` has a round left
RoundsLeft(tries) == tries < max_retries

\* _configure_replication returns (lines 528 or 644); lines 300-301
WireReturn(t, c) ==
    LET env_data == AfterWiring(c.env_data, c.faults)
    IN  /\ ctx' = [ctx EXCEPT ![t] =
                      [c EXCEPT !.env_data = env_data,
                                !.result = [success |-> TRUE, stderr |-> "",
                                            env_data |-> env_data]]]
        /\ environments' = Mutated(environments, c, env_data)
        /\ disk' = disk \cup {env_data.id}
        /\ pc' = [pc EXCEPT ![t] = "done"]

\* line 537 carrying on from the rounds already made
ReplicaLoopStart_CarriedOver(tries) == tries

\* line 537: `for j in range(max_retries)` starts afresh for each replica
ReplicaLoopStart(tries) == 0

\* line 531: the loop over the replicas goes on or is over
NextReplica(t, c) ==
    IF c.w.i < c.env_data.replica_count
    THEN /\ ctx' = [ctx EXCEPT ![t] =
                       [c EXCEPT !.w.i = c.w.i + 1,
                                 !.w.tries = ReplicaLoopStart(c.w.tries)]]
         /\ pc' = [pc EXCEPT ![t] = "wire_replica"]
         /\ UNCHANGED <<environments, disk>>
    ELSE WireReturn(t, c)

\* line 526 never returning
AbortsWiring_Never(source_ready) == FALSE

\* line 526: `if not source_ready`
AbortsWiring(source_ready) == ~source_ready

\* lines 526-531: the source loop is over
AfterSourceLoop(t, c) ==
    IF AbortsWiring(c.w.source_ready)
    THEN WireReturn(t, [c EXCEPT !.faults = c.faults \cup {"source not ready"}])
    ELSE NextReplica(t, c)

\* lines 509-528: one round of the source loop
WireSource(t) ==
    /\ pc[t] = "wire_source"
    /\ \E ping \in BOOLEAN, user_check \in UserCheckResults :
        LET c == ctx[t]
            ready == ping /\ UserConfirmed(user_check)
            met == [c EXCEPT !.w.tries = c.w.tries + 1,
                             !.w.seen = c.w.seen \cup {SourceMet(ping, user_check)},
                             !.w.last = [ping |-> ping, checked |-> ping,
                                         user_check |-> IF ping THEN user_check
                                                        ELSE NoWiring.last.user_check]]
        IN  IF ready
            THEN AfterSourceLoop(t, [met EXCEPT !.w.source_ready = TRUE])
            ELSE IF RoundsLeft(met.w.tries)
                 THEN /\ ctx' = [ctx EXCEPT ![t] = met]
                      /\ UNCHANGED <<environments, disk, pc>>
                 ELSE AfterSourceLoop(t, met)
    /\ UNCHANGED <<composeFiles, clock, aArgs, aResult>>

\* lines 536-549: one round of the loop that waits for replica i; the count
\* of the rounds of each replica is kept when `history` is asked for
WireReplicaWith(t, history) ==
    /\ pc[t] = "wire_replica"
    /\ \E ping \in BOOLEAN :
        LET c == ctx[t]
            i == c.w.i
            before == IF i \in DOMAIN c.w.rounds THEN c.w.rounds[i] ELSE 0
            met == [c EXCEPT !.w.tries = c.w.tries + 1,
                             !.w.probed = c.w.probed \cup {i},
                             !.w.rounds = IF history THEN Put(c.w.rounds, i, before + 1)
                                          ELSE c.w.rounds]
        IN  IF ping
            THEN /\ ctx' = [ctx EXCEPT ![t] = met]
                 /\ pc' = [pc EXCEPT ![t] = "wire_setup"]
                 /\ UNCHANGED <<environments, disk>>
            ELSE IF RoundsLeft(met.w.tries)
                 THEN /\ ctx' = [ctx EXCEPT ![t] = met]
                      /\ UNCHANGED <<environments, disk, pc>>
                 ELSE NextReplica(t, [met EXCEPT
                                         !.w.skipped = met.w.skipped \cup {i},
                                         !.faults = met.faults \cup {"replica not ready"}])
    /\ UNCHANGED <<composeFiles, clock, aArgs, aResult>>

\* lines 592-594 with the first two statements in each other's place
StatementAt_SourceFirst(k) == <<"change source", "stop", "start">>[k]

\* lines 592-594 and line 609: the statements in the order they are written
\* to the file and put in `commands`: STOP REPLICA, CHANGE REPLICATION SOURCE
\* TO ..., START REPLICA (or their older spellings, lines 559-588)
StatementAt(k) == <<"stop", "change source", "start">>[k]

\* lines 596-617: what replica i is sent. The file is copied in; when that
\* worked the file is run as one batch (line 603), when it did not the
\* statements are run one by one up to the first that fails (lines 609-617;
\* `failing` is its place, 0 when none fails)
StatementsSent(copy, batch, failing) ==
    <<[cmd |-> <<"copy">>, ok |-> copy]>>
    \o (IF copy
        THEN <<[cmd |-> <<"batch", StatementAt(1), StatementAt(2), StatementAt(3)>>,
                ok |-> batch]>>
        ELSE [k \in 1..(IF failing = 0 THEN 3 ELSE failing) |->
                 [cmd |-> <<"single", StatementAt(k)>>, ok |-> k # failing]])

\* line 619: result['success'] of the batch or of the statements one by one
StatementsSucceeded(copy, batch, failing) == IF copy THEN batch ELSE failing = 0

WireReplica(t) == WireReplicaWith(t, FALSE)

\* lines 551-644: the statements are sent to replica i and, when they went
\* through, its replication status is asked for (lines 619-638); what was
\* sent is kept when `history` is asked for
WireSetupWith(t, history) ==
    /\ pc[t] = "wire_setup"
    /\ \E copy \in BOOLEAN, batch \in BOOLEAN, failing \in 0..3, status \in StatusAnswers :
        LET c == ctx[t]
            success == StatementsSucceeded(copy, batch, failing)
            logged == IF ~success THEN {"statements rejected"}
                      ELSE IF status = "io not running" THEN {"replication not running"}
                      ELSE {}
            sent == StatementsSent(copy, batch, failing)
                    \o (IF success THEN <<[cmd |-> <<"status">>, ok |-> status # "failed"]>>
                        ELSE <<>>)
        IN  NextReplica(t, [c EXCEPT !.w.configured = c.w.configured \cup {c.w.i},
                                     !.w.sent = IF history THEN sent ELSE c.w.sent,
                                     !.faults = c.faults \cup logged])
    /\ UNCHANGED <<composeFiles, clock, aArgs, aResult>>

WireSetup(t) == WireSetupWith(t, FALSE)

----------------------------------------------------------------------------
(* list_environments, get_environment, delete_environment *)

\* lines 710-726: the status list_environments derives from container_info
Reconcile(env_data, container_info) ==
    LET running == RunningCount(container_info)
        total == Len(container_info)
        listed == [env_data EXCEPT !.containers = ContainerNames(container_info)]
    IN  IF container_info # <<>>
        THEN IF running = total
             THEN [listed EXCEPT !.status = "running"]
             ELSE IF running > 0
                  THEN [listed EXCEPT !.status = "partial",
                                      !.error = <<"Running:", running, total>>]
                  ELSE [listed EXCEPT !.status = "stopped"]
        ELSE [env_data EXCEPT !.status = "error", !.error = <<"No containers found">>]

\* lines 696-728: one environment's update from the answer to its status
\* query; a failed command or an exception of json.loads leaves it as it was
UpdateStatus(env_data, result) ==
    IF result.success
    THEN LET parsed == ParsePsWhole(result)
         IN  IF parsed.raised THEN env_data ELSE Reconcile(env_data, parsed.container_info)
    ELSE env_data

\* lines 692-695 followed by a restart of the topology
StatusQuery_AndRestart(env_id, result) ==
    <<<<"docker compose ps", env_id, result>>, <<"docker compose up", env_id, result>>>>

\* lines 732-736 returning a record it has marked as running
Lookup_MarkedRunning(envs, env_id) ==
    IF env_id \in DOMAIN envs
    THEN [success |-> TRUE, env_id |-> env_id,
          env_data |-> [envs[env_id] EXCEPT !.status = "running"]]
    ELSE [success |-> FALSE, env_id |-> env_id, env_data |-> NoEnv]

\* lines 692-695: what list_environments runs for one environment
StatusQuery(env_id, result) == <<<<"docker compose ps", env_id, result>>>>

\* lines 732-736: what get_environment returns, None as success = FALSE
Lookup(envs, env_id) ==
    IF env_id \in DOMAIN envs
    THEN [success |-> TRUE, env_id |-> env_id, env_data |-> envs[env_id]]
    ELSE [success |-> FALSE, env_id |-> env_id, env_data |-> NoEnv]

\* line 687: the loop is entered
ListBegin(t) ==
    /\ pc[t] = "idle"
    /\ ctx' = [ctx EXCEPT ![t] = [NewCtx("list") EXCEPT !.todo = DOMAIN environments]]
    /\ pc' = [pc EXCEPT ![t] = "list"]
    /\ UNCHANGED <<environments, disk, composeFiles, clock, aArgs, aResult>>

\* lines 687-728: one round of the loop
ListStep(t) ==
    /\ pc[t] = "list"
    /\ \E env_id \in ctx[t].todo \cap DOMAIN environments :
        LET c == ctx[t]
            env_data == environments[env_id]
        IN  IF env_id \in composeFiles
            THEN \E result \in PsOutputs(env_data.replica_count) :
                    /\ environments' = Put(environments, env_id, UpdateStatus(env_data, result))
                    /\ ctx' = [ctx EXCEPT ![t] =
                                  [c EXCEPT !.todo = c.todo \ {env_id},
                                            !.cmds = c.cmds \o StatusQuery(env_id, result)]]
            ELSE /\ environments' = environments
                 /\ ctx' = [ctx EXCEPT ![t] = [c EXCEPT !.todo = c.todo \ {env_id}]]
    /\ UNCHANGED <<disk, composeFiles, clock, pc, aArgs, aResult>>

\* line 730: return list(self.environments.values())
ListEnd(t) ==
    /\ pc[t] = "list"
    /\ ctx[t].todo \cap DOMAIN environments = {}
    /\ ctx' = [ctx EXCEPT ![t] =
                  [ctx[t] EXCEPT !.result = [success |-> TRUE, environments |-> environments]]]
    /\ pc' = [pc EXCEPT ![t] = "done"]
    /\ UNCHANGED <<environments, disk, composeFiles, clock, aArgs, aResult>>

AllIds ==
    {EnvId(db_type, db_version, name, now)
     : db_type \in DbTypes, db_version \in DbVersions, name \in Names, now \in 0..MaxClock}

\* lines 732-736, as the route of lines 796-802 calls it
GetEnvironment(t) ==
    /\ pc[t] = "idle"
    /\ \E env_id \in AllIds :
        ctx' = [ctx EXCEPT ![t] =
                   [NewCtx("get") EXCEPT
                       !.result = Lookup(environments, env_id)]]
    /\ pc' = [pc EXCEPT ![t] = "done"]
    /\ UNCHANGED <<environments, disk, composeFiles, clock, aArgs, aResult>>

\* lines 646-682
DeleteEnvironment(t) ==
    /\ pc[t] = "idle"
    /\ \E env_id \in AllIds, down \in BOOLEAN, rmtree \in BOOLEAN, left \in BOOLEAN :
        IF env_id \notin DOMAIN environments
        THEN /\ ctx' = [ctx EXCEPT ![t] =
                           [NewCtx("delete") EXCEPT
                               !.args = [env_id |-> env_id],
                               !.result = [success |-> FALSE, env_id |-> env_id,
                                           error |-> "Environment not found"]]]
             /\ UNCHANGED <<environments, disk, composeFiles>>
        ELSE LET exists == env_id \in composeFiles
                 errors == (IF exists /\ ~down THEN <<"Failed to stop containers">> ELSE <<>>)
                           \o (IF exists /\ ~rmtree THEN <<"Failed to remove directory">>
                               ELSE <<>>)
             IN  /\ (~exists => down /\ rmtree)
                 /\ (rmtree => left)
                 \* a failed rmtree may have removed the compose file or left it
                 /\ composeFiles' = IF exists /\ ~rmtree /\ left
                                    THEN composeFiles ELSE composeFiles \ {env_id}
                 /\ environments' = Drop(environments, env_id)
                 /\ disk' = disk \ {env_id}
                 /\ ctx' = [ctx EXCEPT ![t] =
                               [NewCtx("delete") EXCEPT
                                   !.args = [env_id |-> env_id],
                                   !.faults = (IF exists /\ ~down THEN {"down"} ELSE {})
                                              \cup (IF exists /\ ~rmtree THEN {"rmtree"} ELSE {}),
                                   !.cmds = IF exists THEN <<<<"docker compose down", env_id>>>>
                                            ELSE <<>>,
                                   !.result = [success |-> TRUE, env_id |-> env_id,
                                               message |-> IF errors # <<>>
                                                   THEN "Environment deleted with warnings"
                                                   ELSE "Environment deleted successfully",
                                               warnings |-> errors]]]
    /\ pc' = [pc EXCEPT ![t] = "done"]
    /\ UNCHANGED <<clock, aArgs, aResult>>

\* the handler has returned: its locals are gone and the thread is free
Return(t) ==
    /\ pc[t] = "done"
    /\ pc' = [pc EXCEPT ![t] = "idle"]
    /\ ctx' = [ctx EXCEPT ![t] = NewCtx("none")]
    /\ UNCHANGED <<environments, disk, composeFiles, clock, aArgs, aResult>>

\* a second passes
Tick ==
    /\ clock < MaxClock
    /\ clock' = clock + 1
    /\ UNCHANGED <<environments, disk, composeFiles, pc, ctx, aArgs, aResult>>

----------------------------------------------------------------------------
(* The program, its requests served one after the other *)

NoArgs == [dockerPs |-> [success |-> FALSE, ports |-> {}], composePs |-> <<>>,
           listening |-> {}, count |-> 0, start_port |-> StartPort]
NoCall == [called |-> FALSE, raised |-> FALSE, ports |-> <<>>]

\* __init__ with an empty ENVIRONMENTS_DIR
Init ==
    /\ environments = <<>>
    /\ disk = {}
    /\ composeFiles = {}
    /\ clock = 0
    /\ pc = [t \in Threads |-> "idle"]
    /\ ctx = [t \in Threads |-> NewCtx("none")]
    /\ aArgs = NoArgs
    /\ aResult = NoCall

\* every request, within one second of the clock
Next ==
    \/ \E t \in Threads : CreateReject(t)
    \/ \E t \in Threads : CreateBegin(t)
    \/ \E t \in Threads : CreateStart(t)
    \/ \E t \in Threads : CreatePoll(t)
    \/ \E t \in Threads : CreateWire(t)
    \/ \E t \in Threads : WireSource(t)
    \/ \E t \in Threads : WireReplica(t)
    \/ \E t \in Threads : WireSetup(t)
    \/ \E t \in Threads : ListBegin(t)
    \/ \E t \in Threads : ListStep(t)
    \/ \E t \in Threads : ListEnd(t)
    \/ \E t \in Threads : GetEnvironment(t)
    \/ \E t \in Threads : DeleteEnvironment(t)
    \/ \E t \in Threads : Return(t)

Spec == Init /\ [][Next]_vars

\* creations and deletions only, while the clock runs
NextCreateDelete ==
    \/ \E t \in Threads : CreateBegin(t)
    \/ \E t \in Threads : CreateStart(t)
    \/ \E t \in Threads : CreatePoll(t)
    \/ \E t \in Threads : CreateWire(t)
    \/ \E t \in Threads : WireSource(t)
    \/ \E t \in Threads : WireReplica(t)
    \/ \E t \in Threads : WireSetup(t)
    \/ \E t \in Threads : DeleteEnvironment(t)
    \/ \E t \in Threads : Return(t)
    \/ Tick

SpecCreateDelete == Init /\ [][NextCreateDelete]_vars

\* the steps of a create that was taken up: each ends, since every command
\* it waits for is cut off after 300 seconds (line 145) and every sleep is finite
CreateStep(t) ==
    \/ CreateStart(t)
    \/ CreatePoll(t)
    \/ CreateWire(t)
    \/ WireSource(t)
    \/ WireReplica(t)
    \/ WireSetup(t)

\* the program with its creates going on
SpecLive == Init /\ [][Next]_vars /\ \A t \in Threads : WF_vars(CreateStep(t))

----------------------------------------------------------------------------
(* _configure_replication on its own, for environments of several replicas *)

MaxWiredReplicas == 2
WiredReplicaCounts == 1..MaxWiredReplicas

\* create_environment at line 282: the topology of a first environment was
\* started and every container of it was listed as running
WiringInit ==
    \E replica_count \in WiredReplicaCounts :
    \E containers_result \in PsOutputs(replica_count) :
        LET alloc == [raised |-> FALSE,
                      ports |-> [i \in 1..(1 + replica_count) |-> StartPort + i - 1]]
            started == GenerateComposeFile(
                           EnvData("mysql", "8.0", "", replica_count, 0), alloc)
            container_info == ParsePsByLine(containers_result)
            env_data == DetermineStatus(
                            [started EXCEPT !.containers = ContainerNames(container_info)],
                            container_info)
        IN  /\ containers_result.success
            /\ ~OutputIsEmpty(containers_result)
            /\ WiringDue(container_info)
            /\ environments = Put(<<>>, env_data.id, env_data)
            /\ disk = {env_data.id}
            /\ composeFiles = {env_data.id}
            /\ clock = 0
            /\ pc = [t \in Threads |-> "wire"]
            /\ ctx = [t \in Threads |->
                         [NewCtx("create") EXCEPT
                             !.args = [replica_count |-> replica_count],
                             !.env_data = env_data,
                             !.linked = TRUE,
                             !.up = [success |-> TRUE, stderr |-> ""],
                             !.polled = TRUE,
                             !.container_info = container_info,
                             !.cmds = PortQueryCommands(<<>>, {})
                                      \o <<<<"docker compose up">>, <<"docker compose ps">>>>
                                      \o LogCommands(container_info)]]
            /\ aArgs = NoArgs
            /\ aResult = NoCall

\* the steps for the replicas, with the rounds of each and what it was sent
WireReplicaKept(t) == WireReplicaWith(t, TRUE)
WireSetupKept(t) == WireSetupWith(t, TRUE)

NextWiring ==
    \/ \E t \in Threads : CreateWire(t)
    \/ \E t \in Threads : WireSource(t)
    \/ \E t \in Threads : WireReplicaKept(t)
    \/ \E t \in Threads : WireSetupKept(t)

SpecWiring == WiringInit /\ [][NextWiring]_vars

----------------------------------------------------------------------------
(* create_environment on its own, with every stderr of the start *)

CreateStartAnyStderr(t) == CreateStartWith(t, UpResultsWithProgress)

NextStart ==
    \/ \E t \in Threads : CreateBegin(t)
    \/ \E t \in Threads : CreateStartAnyStderr(t)
    \/ \E t \in Threads : CreatePoll(t)
    \/ \E t \in Threads : CreateWire(t)
    \/ \E t \in Threads : WireSource(t)
    \/ \E t \in Threads : WireReplica(t)
    \/ \E t \in Threads : WireSetup(t)

SpecStart == Init /\ [][NextStart]_vars

----------------------------------------------------------------------------
(* _generate_async_template_with_replicas on its own: every engine the
   route admits, every replica_count it admits, versions on either side of 8 *)

\* line 773: the engines the route admits
TemplateDbTypes == {"mysql", "percona", "mariadb"}

\* db_version is free text; a version is written here as the numbers between
\* its dots, and <<>> stands for a text that does not begin with a number
TemplateVersions == {<<5, 7>>, <<8, 0>>, <<8, 4>>, <<10, 11>>, <<>>}

\* line 557: the number before the first dot, 8 when there is none
VersionMajor(db_version) == IF db_version # <<>> THEN db_version[1] ELSE 8

\* line 774: the counts the route admits
TemplateReplicaCounts == {n \in 0..11 : ValidReplicaCount(n)}

\* lines 345-351: the image, by engine, with the version as it was given
ImageOf(db_type, version) ==
    CASE db_type = "percona" -> <<"percona/percona-server", version>>
      [] db_type = "mariadb" -> <<"mariadb", version>>
      [] OTHER               -> <<"mysql", version>>

\* _get_replication_command returning the server-id of a source and nothing else
GetReplicationCommand_IdOnly(db_type, role) ==
    IF role = "source" THEN <<<<"--server-id", 1>>>> ELSE <<>>

\* lines 427-474: the flags of the server, each as <<name, value>>; the
\* function takes the engine and the role and no version
GetReplicationCommand(db_type, role) ==
    IF db_type \in {"mysql", "percona"}
    THEN IF role = "source"
         THEN <<<<"--server-id", 1>>,
                <<"--log-bin", "mysql-bin">>,
                <<"--binlog-format", "ROW">>,
                <<"--gtid-mode", "ON">>,
                <<"--enforce-gtid-consistency", "ON">>,
                <<"--character-set-server", "utf8mb4">>,
                <<"--collation-server", "utf8mb4_unicode_ci">>>>
         ELSE <<<<"--log-bin", "mysql-bin">>,
                <<"--binlog-format", "ROW">>,
                <<"--gtid-mode", "ON">>,
                <<"--enforce-gtid-consistency", "ON">>,
                <<"--relay-log", "replica-relay-bin">>,
                <<"--read-only", "1">>,
                <<"--character-set-server", "utf8mb4">>,
                <<"--collation-server", "utf8mb4_unicode_ci">>>>
    ELSE IF db_type = "mariadb"
    THEN IF role = "source"
         THEN <<<<"--server-id", 1>>,
                <<"--log-bin", "mysql-bin">>,
                <<"--binlog-format", "ROW">>,
                <<"--gtid-domain-id", "1">>,
                <<"--character-set-server", "utf8mb4">>,
                <<"--collation-server", "utf8mb4_unicode_ci">>>>
         ELSE <<<<"--log-bin", "mysql-bin">>,
                <<"--binlog-format", "ROW">>,
                <<"--gtid-domain-id", "1">>,
                <<"--relay-log", "replica-relay-bin">>,
                <<"--read-only", "1">>,
                <<"--character-set-server", "utf8mb4">>,
                <<"--collation-server", "utf8mb4_unicode_ci">>>>
    ELSE <<>>

\* line 387 giving replica i the number i
ReplicaServerId_OwnIndex(i) == i

\* line 387: server_id = i + 1
ReplicaServerId(i) == i + 1

\* lines 357-379 and 384-414: the services of the topology; 'source' is
\* entry 1 and 'replica<i>' entry i + 1, as in PortAssignments
TemplateServices(db_type, version, replica_count) ==
    [k \in 1..(1 + replica_count) |->
        IF k = 1
        THEN [role       |-> "source",
              index      |-> 0,
              image      |-> ImageOf(db_type, version),
              depends_on |-> {},
              command    |-> GetReplicationCommand(db_type, "source")]
        ELSE [role       |-> "replica",
              index      |-> k - 1,
              image      |-> ImageOf(db_type, version),
              depends_on |-> {"source"},
              command    |-> Append(GetReplicationCommand(db_type, "replica"),
                                    <<"--server-id", ReplicaServerId(k - 1)>>)]]

TemplateInit ==
    /\ environments = <<>>
    /\ disk = {}
    /\ composeFiles = {}
    /\ clock = 0
    /\ pc = [t \in Threads |-> "idle"]
    /\ ctx = [t \in Threads |-> NewCtx("none")]
    /\ aArgs \in [db_type : TemplateDbTypes, version : TemplateVersions,
                  replica_count : TemplateReplicaCounts]
    /\ aResult = [called |-> FALSE]

\* one call of _generate_async_template_with_replicas
TemplateCall ==
    /\ ~aResult.called
    /\ aResult' = [called |-> TRUE,
                   services |-> TemplateServices(aArgs.db_type, aArgs.version,
                                                 aArgs.replica_count)]
    /\ UNCHANGED <<environments, disk, composeFiles, clock, pc, ctx, aArgs>>

TemplateNext == TemplateCall

SpecTemplate == TemplateInit /\ [][TemplateNext]_vars

----------------------------------------------------------------------------
(* find_free_ports on its own: every index, every answer, every probe *)

\* strictly ascending port lists of length n: what a scan can have returned
AscendingPorts(n) ==
    {ps \in [1..n -> Ports] : \A i \in 1..(n - 1) : ps[i] < ps[i + 1]}

\* an environment as a finished create leaves it, with the ports given
RecordedEnv(now, ps) ==
    [EnvData("mysql", "8.0", "", Len(ps) - 1, now) EXCEPT
        !.status = "running",
        !.ports = PortAssignments(ps, Len(ps) - 1)]

PortLists == UNION {AscendingPorts(1 + replica_count) : replica_count \in ReplicaCounts}

\* the indexes find_free_ports is run against: no environment, one with any
\* ports, or two on disjoint ports
IndexesToScan ==
    {<<>>}
    \cup {Put(<<>>, RecordedEnv(0, ps).id, RecordedEnv(0, ps)) : ps \in PortLists}
    \cup {Put(Put(<<>>, RecordedEnv(0, ps).id, RecordedEnv(0, ps)),
              RecordedEnv(1, qs).id, RecordedEnv(1, qs))
          : <<ps, qs>> \in {pq \in PortLists \X PortLists :
                                /\ Range(pq[1]) \cap Range(pq[2]) = {}
                                /\ pq[1][1] < pq[2][1]}}

AllocInit ==
    /\ environments \in IndexesToScan
    /\ disk = DOMAIN environments
    /\ composeFiles = DOMAIN environments
    /\ clock = 0
    /\ pc = [t \in Threads |-> "idle"]
    /\ ctx = [t \in Threads |-> NewCtx("none")]
    /\ \E dockerPs \in PortQueryResults,
          composePs \in ComposeAnswers(environments, composeFiles),
          listening \in SUBSET Ports,
          count \in 1..(1 + MaxReplicas),
          start_port \in {StartPort, StartPort + 1} :
        aArgs = [dockerPs |-> dockerPs, composePs |-> composePs, listening |-> listening,
                 count |-> count, start_port |-> start_port]
    /\ aResult = NoCall

\* one call of find_free_ports
AllocCall ==
    /\ ~aResult.called
    /\ LET r == FindFreePorts(environments, composeFiles, aArgs.dockerPs, aArgs.composePs,
                              aArgs.listening, aArgs.count, aArgs.start_port)
       IN  aResult' = [called |-> TRUE, raised |-> r.raised, ports |-> r.ports]
    /\ UNCHANGED <<environments, disk, composeFiles, clock, pc, ctx, aArgs>>

AllocNext == AllocCall

SpecAlloc == AllocInit /\ [][AllocNext]_vars

----------------------------------------------------------------------------
(* list_environments over two environments that creations left behind *)

\* what create_environment can leave of an environment whose start succeeded
\* (lines 228-229 and 275-291)
CreatedEnvs(now, ps) ==
    LET base == [RecordedEnv(now, ps) EXCEPT !.status = "creating"]
    IN  {NoneAfterCreation(base)}
        \cup {DetermineStatus([base EXCEPT !.containers = ContainerNames(o)], o)
              : o \in Observations(base.replica_count)}

ReconcileInit ==
    /\ \E e1 \in CreatedEnvs(0, <<StartPort, StartPort + 1>>),
          e2 \in CreatedEnvs(1, <<StartPort + 2, StartPort + 3>>) :
        environments = Put(Put(<<>>, e1.id, e1), e2.id, e2)
    /\ disk = DOMAIN environments
    /\ composeFiles = DOMAIN environments
    /\ clock = 1
    /\ pc = [t \in Threads |-> "idle"]
    /\ ctx = [t \in Threads |-> NewCtx("none")]
    /\ aArgs = NoArgs
    /\ aResult = NoCall

\* one call of list_environments
NextReconcile ==
    \/ \E t \in Threads : ListBegin(t)
    \/ \E t \in Threads : ListStep(t)
    \/ \E t \in Threads : ListEnd(t)

SpecReconcile == ReconcileInit /\ [][NextReconcile]_vars

----------------------------------------------------------------------------
(* delete_environment and get_environment over two stored environments *)

NextDeleteGet ==
    \/ \E t \in Threads : DeleteEnvironment(t)
    \/ \E t \in Threads : GetEnvironment(t)
    \/ \E t \in Threads : Return(t)

SpecDeleteGet == ReconcileInit /\ [][NextDeleteGet]_vars

----------------------------------------------------------------------------
(* Two create requests served at the same time *)

\* the request threads of the server (line 851: app.run serves each request
\* in a thread of its own)
Racers == {"t1", "t2"}

\* what the runtime says when a host port of the topology is taken:
\* 'address already in use', or 'port is already allocated'
BindErrors == {"address already in use", "port"}

\* another create has started its topology, under another id, on a host port
\* that the topology of t maps too
HeldByOther(t) ==
    \E u \in (DOMAIN pc) \ {t} :
        /\ ctx[u].op = "create" /\ ctx[u].up.success
        /\ pc[u] \notin {"idle", "start"}
        /\ ctx[u].env_data.id # ctx[t].env_data.id
        /\ HostPortsOf(ctx[u].env_data) \cap HostPortsOf(ctx[t].env_data) # {}

\* lines 190-209 against a runtime that refuses to bind a port twice: the
\* start of a topology on a port held by a started one fails with a bind error
RaceStart(t) ==
    /\ CreateStart(t)
    /\ HeldByOther(t) => (~ctx'[t].up.success /\ ctx'[t].up.stderr \in BindErrors)

RaceInit ==
    /\ environments = <<>>
    /\ disk = {}
    /\ composeFiles = {}
    /\ clock = 0
    /\ pc = [t \in Racers |-> "idle"]
    /\ ctx = [t \in Racers |-> NewCtx("none")]
    /\ aArgs = NoArgs
    /\ aResult = NoCall

\* each thread serves one create request, up to the start of its topology
NextRace ==
    \/ \E t \in Racers : CreateBegin(t)
    \/ \E t \in Racers : RaceStart(t)
    \/ Tick

SpecRace == RaceInit /\ [][NextRace]_vars

----------------------------------------------------------------------------
(* run_docker_command on its own: every way subprocess.run can end *)

\* returncode of a finished command: an exit code, or -N when signal N killed it
ReturnCodes == (0 - MaxSignal)..MaxReturnCode

OutputTexts == {"", "text", "port is already allocated"}

\* how subprocess.run ends (lines 139-146): the command finished, the 300
\* seconds ran out, or another exception was raised (the cwd is gone, say)
ProcessOutcomes ==
    {[kind |-> "exit", returncode |-> rc, stdout |-> out, stderr |-> err]
     : rc \in ReturnCodes, out \in OutputTexts, err \in OutputTexts}
    \cup {[kind |-> "timeout", returncode |-> 0, stdout |-> "", stderr |-> ""]}
    \cup {[kind |-> "exception", returncode |-> 0, stdout |-> "", stderr |-> e]
          : e \in {"No such file or directory", "Permission denied"}}

\* lines 147-152 with success for every returncode that is not negative
RunDockerCommand_SignalsOnlyFail(outcome) ==
    [raised |-> FALSE, success |-> outcome.returncode >= 0, stdout |-> outcome.stdout,
     stderr |-> outcome.stderr, returncode |-> outcome.returncode]

\* lines 138-166: the record run_docker_command returns
RunDockerCommand(outcome) ==
    IF outcome.kind = "exit"
    THEN [raised |-> FALSE, success |-> outcome.returncode = 0, stdout |-> outcome.stdout,
          stderr |-> outcome.stderr, returncode |-> outcome.returncode]
    ELSE IF outcome.kind = "timeout"
    THEN [raised |-> FALSE, success |-> FALSE, stdout |-> "",
          stderr |-> "Command timed out", returncode |-> -1]
    ELSE [raised |-> FALSE, success |-> FALSE, stdout |-> "",
          stderr |-> outcome.stderr, returncode |-> -1]

RunnerInit ==
    /\ environments = <<>>
    /\ disk = {}
    /\ composeFiles = {}
    /\ clock = 0
    /\ pc = [t \in Threads |-> "idle"]
    /\ ctx = [t \in Threads |-> NewCtx("none")]
    /\ aArgs \in ProcessOutcomes
    /\ aResult = [called |-> FALSE]

\* one call of run_docker_command
RunnerCall ==
    /\ ~aResult.called
    /\ aResult' = [called |-> TRUE, result |-> RunDockerCommand(aArgs)]
    /\ UNCHANGED <<environments, disk, composeFiles, clock, pc, ctx, aArgs>>

RunnerNext == RunnerCall

SpecRunner == RunnerInit /\ [][RunnerNext]_vars

----------------------------------------------------------------------------
(* Port allocation, checked under SpecAlloc *)

AllocUsed == UsedPorts(environments, composeFiles, aArgs.dockerPs, aArgs.composePs)

\* C1: a find_free_ports call that returns gives exactly `count` host ports,
\* pairwise distinct, none of them a host port recorded in an environment.
C1_ReturnsCountDistinctUnrecorded ==
    (aResult.called /\ ~aResult.raised) =>
        /\ Len(aResult.ports) = aArgs.count
        /\ \A i, j \in DOMAIN aResult.ports : i # j => aResult.ports[i] # aResult.ports[j]
        /\ Range(aResult.ports) \cap EnvHostPorts(environments) = {}

\* a call that returned two or more ports and stepped over a recorded one
C1_Witness ==
    /\ aResult.called /\ ~aResult.raised
    /\ aArgs.count >= 2
    /\ \E p \in EnvHostPorts(environments) :
        aResult.ports[1] < p /\ p < aResult.ports[Len(aResult.ports)]

\* C2: find_free_ports raises only when the valid range from start_port up to
\* and including its topmost port holds fewer than `count` eligible ports.
C2_RaisesOnlyWhenSaturated ==
    (/\ aResult.called
     /\ Cardinality({p \in aArgs.start_port..TopPort :
                        p \notin AllocUsed /\ p \notin aArgs.listening}) >= aArgs.count)
    => ~aResult.raised

----------------------------------------------------------------------------
(* Creation *)

Distinct(ports) == \A i, j \in DOMAIN ports : i # j => ports[i].host # ports[j].host

OtherEnvs(envs, env_id) == [id \in (DOMAIN envs) \ {env_id} |-> envs[id]]

\* C3 (SpecCreateDelete): after any sequence of creations and deletions, no
\* two roles of an environment share a host port, and the ports a creation
\* assigns are none of those recorded by the other environments that exist
\* when it allocates.
C3_HostPortsNeverShared ==
    [][/\ \A id \in DOMAIN environments' : Distinct(environments'[id].ports)
       /\ \A t \in Threads :
            (pc[t] = "idle" /\ pc'[t] = "start") =>
                HostPortsOf(ctx'[t].env_data)
                    \cap EnvHostPorts(OtherEnvs(environments, ctx'[t].env_data.id)) = {}]_vars

Issued(c, command) == \E k \in DOMAIN c.cmds : c.cmds[k][1] = command

\* C4: when find_free_ports raises, create ends in a failure reported to the
\* caller, records no port assignments and never starts the topology.
C4_AllocationFailureIsFatal ==
    \A t \in Threads :
        (ctx[t].op = "create" /\ ctx[t].raised) =>
            /\ ctx[t].env_data.ports = <<>>
            /\ ~Issued(ctx[t], "docker compose up")
            /\ pc[t] \notin {"poll", "wire"}
            /\ (pc[t] = "done" => ~ctx[t].result.success)

\* C5: _configure_replication is entered only if the status query listed
\* all 1 + replica_count containers and every one of them as running.
C5_WiringOnlyWhenAllExpectedRun ==
    \A t \in Threads :
        (ctx[t].op = "create" /\ (pc[t] = "wire" \/ ctx[t].wiring)) =>
            /\ Len(ctx[t].container_info) = 1 + ctx[t].env_data.replica_count
            /\ RunningCount(ctx[t].container_info) = 1 + ctx[t].env_data.replica_count

WiringAttempted(t) == pc[t] = "wire" \/ ctx[t].wiring

----------------------------------------------------------------------------
(* Reconciliation *)

\* the containers list_environments found in an answer: those it read from it
Found(result) == ParsePsWhole(result).container_info

\* the status the reconciler is to give for the containers found
StatusOfFound(items) ==
    IF items = <<>> THEN "error"
    ELSE IF RunningCount(items) = Len(items) THEN "running"
    ELSE IF RunningCount(items) > 0 THEN "partial"
    ELSE "stopped"

\* C7: an environment whose containers list_environments has re-queried has
\* the status of what was found: all running -> running; some -> partial;
\* none found -> error; found but none running -> stopped.
C7_ListStatusOfFound ==
    \A t \in Threads :
        ctx[t].op = "list" =>
            \A k \in DOMAIN ctx[t].cmds :
                LET env_id == ctx[t].cmds[k][2]
                    result == ctx[t].cmds[k][3]
                IN  (result.success /\ env_id \in DOMAIN environments) =>
                        environments[env_id].status = StatusOfFound(Found(result))

\* C8 (SpecReconcile): two environments reconciled against the same answer
\* of the runtime end with the same status and the same diagnostic text,
\* whatever their earlier status and error.
C8_SameAnswerSameOutcome ==
    \A t \in Threads :
        (ctx[t].op = "list" /\ pc[t] = "done") =>
            \A j, k \in DOMAIN ctx[t].cmds :
                LET a == ctx[t].cmds[j]
                    b == ctx[t].cmds[k]
                IN  (a[3] = b[3] /\ a[3].success) =>
                        /\ environments[a[2]].status = environments[b[2]].status
                        /\ environments[a[2]].error = environments[b[2]].error

MutatingCommands == {"docker compose up", "docker compose down", "configure replication"}

\* C9: a status query (list or get) hands the runtime nothing that starts,
\* stops or removes a container or configures replication: every command it
\* runs is the read-only `docker compose ps`.
C9_StatusQueryIsReadOnly ==
    \A t \in Threads :
        ctx[t].op \in {"list", "get"} =>
            \A k \in DOMAIN ctx[t].cmds :
                /\ ctx[t].cmds[k][1] \notin MutatingCommands
                /\ ctx[t].cmds[k][1] = "docker compose ps"

\* a list that re-queried, and found running, an environment that an earlier
\* operation had left with a diagnostic
C9_Witness ==
    \E t \in Threads :
        /\ ctx[t].op = "list" /\ pc[t] = "done"
        /\ \E k \in DOMAIN ctx[t].cmds :
            /\ ctx[t].cmds[k][3].success
            /\ ctx[t].cmds[k][2] \in DOMAIN environments
            /\ environments[ctx[t].cmds[k][2]].status = "running"
            /\ environments[ctx[t].cmds[k][2]].error # <<>>

Queried(c, env_id) ==
    \E k \in DOMAIN c.cmds : c.cmds[k][1] = "docker compose ps" /\ c.cmds[k][2] = env_id

----------------------------------------------------------------------------
(* Deletion and the request boundary *)

\* C11: a delete of a known environment reports success and removes it from
\* the index and from the saved records, whether or not `docker compose down`
\* or the removal of the directory failed; each failure is one warning.
C11_DeleteAlwaysRemoves ==
    [][\A t \in Threads :
        (/\ pc[t] = "idle"
         /\ ctx'[t].op = "delete"
         /\ ctx'[t].args.env_id \in DOMAIN environments) =>
            /\ ctx'[t].result.success
            /\ ctx'[t].args.env_id \notin DOMAIN environments'
            /\ ctx'[t].args.env_id \notin disk'
            /\ Len(ctx'[t].result.warnings) = Cardinality(ctx'[t].faults)]_vars

\* a delete that went through although both the stop and the cleanup failed
C11_Witness ==
    \E t \in Threads :
        /\ ctx[t].op = "delete" /\ pc[t] = "done"
        /\ ctx[t].faults = {"down", "rmtree"}
        /\ ctx[t].result.success
        /\ Len(ctx[t].result.warnings) = 2
        /\ ctx[t].args.env_id \notin DOMAIN environments

\* C12: a create request whose replica_count lies outside 1..10 is answered
\* without any container work: the step that takes it up runs no command,
\* builds no environment record, and leaves the index, the saved records and
\* the compose files as they were.
C12_OutOfRangeRejectedBeforeWork ==
    [][\A t \in Threads :
        (/\ pc[t] = "idle"
         /\ ctx'[t].op = "create"
         /\ (ctx'[t].args.replica_count < 1 \/ ctx'[t].args.replica_count > 10)) =>
            /\ pc'[t] = "done"
            /\ ~ctx'[t].result.success
            /\ ctx'[t].cmds = <<>>
            /\ ctx'[t].env_data = NoEnv
            /\ UNCHANGED <<environments, disk, composeFiles>>]_vars

\* a request for 11 replicas, rejected while an environment exists
C12_Witness ==
    \E t \in Threads :
        /\ ctx[t].op = "create" /\ pc[t] = "done"
        /\ ctx[t].args.replica_count = 11
        /\ ~ctx[t].result.success
        /\ environments # <<>>

----------------------------------------------------------------------------
(* Replication wiring *)

\* C13: once every listed container was seen running, nothing that happens
\* in _configure_replication changes the recorded status: while it runs and
\* when create has returned, the environment is recorded as running.
C13_WiringNeverChangesStatus ==
    \A t \in Threads :
        (ctx[t].op = "create" /\ ctx[t].polled /\ WiringDue(ctx[t].container_info)) =>
            /\ environments[ctx[t].env_data.id].status = "running"
            /\ pc[t] = "done" =>
                    /\ ctx[t].wiring
                    /\ ctx[t].result.success
                    /\ ctx[t].result.env_data.status = "running"

\* a create that returned after the replica rejected the statements
C13_Witness ==
    \E t \in Threads :
        /\ ctx[t].op = "create" /\ pc[t] = "done" /\ ctx[t].wiring
        /\ "statements rejected" \in ctx[t].faults
        /\ environments[ctx[t].env_data.id].status = "running"

\* the status query listed the source container (role 0) as running
SourceObservedRunning(container_info) ==
    \E k \in DOMAIN container_info :
        container_info[k].name = 0 /\ container_info[k].state = "running"

\* C14: when the status query of create did not show the source container
\* running, the environment is recorded with status error from then on, and
\* no replica is pinged or sent replication statements.
C14_SourceDownMeansError ==
    \A t \in Threads :
        (/\ ctx[t].op = "create" /\ ctx[t].up.success /\ ctx[t].polled
         /\ ~SourceObservedRunning(ctx[t].container_info)) =>
            /\ environments[ctx[t].env_data.id].status = "error"
            /\ pc[t] \notin {"wire_replica", "wire_setup"}
            /\ ctx[t].w.probed = {}
            /\ ctx[t].w.configured = {}

\* C20: a replica is pinged or sent replication statements only after one
\* round of the source loop in which the ping succeeded and the user check
\* succeeded and counted the replication account; a source that answers the
\* ping while the account does not exist is not taken as ready.
C20_ReplicasWaitForSourceAndCredential ==
    \A t \in Threads :
        (/\ ctx[t].op = "create"
         /\ \/ pc[t] \in {"wire_replica", "wire_setup"}
            \/ ctx[t].w.source_ready
            \/ ctx[t].w.probed # {}
            \/ ctx[t].w.configured # {}) =>
            /\ ctx[t].w.source_ready
            /\ ctx[t].w.last.ping
            /\ ctx[t].w.last.checked
            /\ ctx[t].w.last.user_check.success
            /\ ctx[t].w.last.user_check.count >= 1

\* a replica that was sent the statements after the source had answered a
\* ping of an earlier round without having the account yet
C20_Witness ==
    \E t \in Threads :
        /\ ctx[t].op = "create"
        /\ "no credential" \in ctx[t].w.seen
        /\ ctx[t].w.source_ready
        /\ 1 \in ctx[t].w.configured

----------------------------------------------------------------------------
(* Identity *)

\* C15: no two creations produce the same id: the step of a create that
\* registers its record (line 192) never finds an environment of that id in
\* the index, so it never overwrites the record of an existing environment.
C15_IdsAreUnique ==
    [][\A t \in Threads :
        (pc[t] = "start" /\ pc'[t] # "start") =>
            ctx[t].env_data.id \notin DOMAIN environments]_vars

----------------------------------------------------------------------------
(* The process runner, checked under SpecRunner *)

\* C16: run_docker_command raises nothing and returns a record for every way
\* the command can end; after a timeout the record has success false,
\* returncode -1 and stderr 'Command timed out'; and success is true exactly
\* when returncode is 0.
C16_RunnerAlwaysReturnsARecord ==
    aResult.called =>
        /\ ~aResult.result.raised
        /\ aResult.result.success <=> (aResult.result.returncode = 0)
        /\ aArgs.kind = "timeout" =>
                /\ ~aResult.result.success
                /\ aResult.result.returncode = -1
                /\ aResult.result.stderr = "Command timed out"

\* a call that ran into the timeout
C16_Witness ==
    /\ aResult.called
    /\ aArgs.kind = "timeout"
    /\ ~aResult.result.success

----------------------------------------------------------------------------
(* Concurrent creation, checked under SpecRace *)

\* C17: when a create starts its topology on a host port that a concurrent
\* create of another environment has already started on, its start fails
\* and it records its own environment with status error and the port
\* conflict annotation, reports the failure to the caller, and leaves the
\* record of every other environment as it was.
C17_CollisionFailsTheLaterStartOnly ==
    [][\A t \in DOMAIN pc :
        (pc[t] = "start" /\ pc'[t] # "start" /\ HeldByOther(t)) =>
            LET id == ctx[t].env_data.id
            IN  /\ ~ctx'[t].up.success
                /\ pc'[t] = "done"
                /\ ~ctx'[t].result.success
                /\ environments'[id].status = "error"
                /\ environments'[id].error[1] = "Port conflict detected."
                /\ \A x \in (DOMAIN environments) \ {id} :
                        x \in DOMAIN environments' /\ environments'[x] = environments[x]]_vars

\* two environments on the same host ports: the one started first as its
\* create left it at the start, the other in error with the annotation
C17_Witness ==
    \E t, u \in DOMAIN pc :
        /\ ctx[t].op = "create" /\ ctx[u].op = "create"
        /\ ctx[t].env_data.id # ctx[u].env_data.id
        /\ ctx[t].env_data.ports = ctx[u].env_data.ports
        /\ ~ctx[t].raised /\ ~ctx[u].raised
        /\ pc[t] = "done" /\ ~ctx[t].up.success
        /\ environments[ctx[t].env_data.id].status = "error"
        /\ environments[ctx[t].env_data.id].error[1] = "Port conflict detected."
        /\ ctx[u].up.success /\ pc[u] = "poll"
        /\ environments[ctx[u].env_data.id] = ctx[u].env_data

----------------------------------------------------------------------------
(* Termination of create, checked under SpecLive *)

TerminalStatuses == {"running", "partial", "error"}

\* C18: every create that was taken up returns, and when it has returned its
\* environment is recorded as running, partial or error; no waiting loop of
\* _configure_replication makes more than max_retries rounds.
C18_CreateReturnsInTerminalStatus ==
    /\ \A t \in Threads :
        (ctx[t].op = "create" /\ pc[t] = "start") ~> (ctx[t].op = "create" /\ pc[t] = "done")
    /\ [](\A t \in Threads :
            /\ ctx[t].w.tries <= max_retries
            /\ (ctx[t].op = "create" /\ pc[t] = "done" /\ ctx[t].env_data # NoEnv) =>
                    /\ ctx[t].result.env_data.status \in TerminalStatuses
                    /\ environments[ctx[t].env_data.id].status \in TerminalStatuses)

\* a create that returned after the source loop had used up its rounds
C18_Witness ==
    \E t \in Threads :
        /\ ctx[t].op = "create" /\ pc[t] = "done"
        /\ ctx[t].w.tries = max_retries
        /\ "source not ready" \in ctx[t].faults
        /\ environments[ctx[t].env_data.id].status = "running"

----------------------------------------------------------------------------
\* the source loop of _configure_replication is over and never saw the
\* source ready
SourceLoopExhausted(t) ==
    /\ ctx[t].op = "create"
    /\ ctx[t].wiring
    /\ pc[t] \notin {"wire", "wire_source"}
    /\ ~ctx[t].w.source_ready

\* C21: when the retry bound of the source is used up without the source
\* being ready, the wiring is given up: no replica is pinged, no replication
\* statement is sent, the call returns and the environment stays running
C21_SourceNotReadyAbortsWiring ==
    \A t \in Threads :
        SourceLoopExhausted(t) =>
            /\ pc[t] = "done"
            /\ ctx[t].w.tries = max_retries
            /\ ctx[t].w.probed = {}
            /\ ctx[t].w.configured = {}
            /\ ctx[t].w.sent = <<>>
            /\ "source not ready" \in ctx[t].faults
            /\ ctx[t].env_data.id \in DOMAIN environments
            /\ environments[ctx[t].env_data.id].status = "running"

\* a wiring given up on a source that answered its last ping but never
\* showed the replication user, in an environment of several replicas
C21_Witness ==
    \E t \in Threads :
        /\ SourceLoopExhausted(t)
        /\ pc[t] = "done"
        /\ ctx[t].w.last.ping
        /\ ctx[t].env_data.replica_count > 1
        /\ environments[ctx[t].env_data.id].status = "running"

\* the rounds made for replica i in the wiring of thread t
RoundsOf(t, i) == IF i \in DOMAIN ctx[t].w.rounds THEN ctx[t].w.rounds[i] ELSE 0

\* C22: every replica has a retry loop of its own, which starts afresh
\* whatever the source and the replicas before it used up; a replica that
\* never answered is skipped with no statement sent to it, and every replica
\* after it is still pinged, with all its rounds, and configured when it answers
C22_EachReplicaHasItsOwnRounds ==
    \A t \in Threads :
        (ctx[t].op = "create" /\ ctx[t].wiring) =>
            LET w == ctx[t].w
                over == IF pc[t] = "done" /\ w.source_ready
                        THEN 1..ctx[t].env_data.replica_count
                        ELSE 1..(w.i - 1)
            IN  /\ \A i \in w.probed : RoundsOf(t, i) \in 1..max_retries
                /\ \A i \in w.skipped : i \notin w.configured /\ RoundsOf(t, i) = max_retries
                /\ \A i \in over : i \in w.probed
                /\ \A i \in over : i \in w.configured <=> i \notin w.skipped
                /\ pc[t] = "wire_replica" => w.tries = RoundsOf(t, w.i)
                /\ pc[t] = "wire_setup" => w.i \in w.probed \ w.skipped

\* the source was ready in its last round, replica 1 was skipped and
\* replica 2 answered in its last round and was configured
C22_Witness ==
    \E t \in Threads :
        /\ pc[t] = "done"
        /\ ctx[t].w.source_ready
        /\ Cardinality(ctx[t].w.seen) > 1
        /\ ctx[t].w.skipped = {1}
        /\ ctx[t].w.configured = {2}
        /\ RoundsOf(t, 2) = max_retries

\* the entries of kind `kind` among what the latest replica was sent
SentOfKind(t, kind) ==
    {k \in DOMAIN ctx[t].w.sent : ctx[t].w.sent[k].cmd[1] = kind}

\* C23: when the statements run as one batch on a replica and the batch
\* fails, the three statements are then run one by one on that replica
C23_FailedBatchFallsBack ==
    \A t \in Threads :
        (\E k \in SentOfKind(t, "batch") : ~ctx[t].w.sent[k].ok) =>
            /\ SentOfKind(t, "single") # {}
            /\ \A k \in SentOfKind(t, "single") : \A b \in SentOfKind(t, "batch") : b < k

\* the statements within one entry of what a replica was sent, in order
StatementsIn(entry) ==
    IF entry.cmd[1] \in {"batch", "single"} THEN SubSeq(entry.cmd, 2, Len(entry.cmd)) ELSE <<>>

\* the statements a replica was sent, in the order they reached it
RECURSIVE StatementsInOrder(_)
StatementsInOrder(sent) ==
    IF sent = <<>> THEN <<>>
    ELSE StatementsIn(Head(sent)) \o StatementsInOrder(Tail(sent))

\* s is the beginning of q
IsPrefix(s, q) == Len(s) <= Len(q) /\ s = SubSeq(q, 1, Len(s))

\* the place of the start statement in what was sent: the entry that carries
\* it, 0 when it was not sent
StartEntry(sent) ==
    LET carrying == {k \in DOMAIN sent :
                        \E j \in DOMAIN StatementsIn(sent[k]) : StatementsIn(sent[k])[j] = "start"}
    IN  IF carrying = {} THEN 0 ELSE CHOOSE k \in carrying : TRUE

\* C24: a replica is sent the statements in the order stop, set source,
\* start, as one batch or one by one, so that start never comes before set
\* source; its replication status is asked for only after the start went
\* through; and the replicas are handled in ascending order
C24_StatementsInOrderStatusAfterStart ==
    \A t \in Threads :
        (ctx[t].op = "create" /\ ctx[t].wiring) =>
            LET w == ctx[t].w
                order == StatementsInOrder(w.sent)
            IN  /\ IsPrefix(order, <<"stop", "change source", "start">>)
                /\ w.configured # {} => order # <<>> /\ order[1] = "stop"
                /\ \A k \in SentOfKind(t, "status") :
                       /\ k = Len(w.sent)
                       /\ StartEntry(w.sent) \in 1..(k - 1)
                       /\ w.sent[StartEntry(w.sent)].ok
                /\ w.probed \in {1..(w.i - 1), 1..w.i}
                /\ w.configured \subseteq w.probed
                /\ pc[t] = "wire_setup" => w.i \notin w.configured

\* replica 2 of two was sent the three statements one by one, all of them
\* went through, and its status was asked for after the start
C24_Witness ==
    \E t \in Threads :
        /\ ctx[t].wiring
        /\ ctx[t].w.configured = {1, 2}
        /\ Cardinality(SentOfKind(t, "single")) = 3
        /\ SentOfKind(t, "status") = {5}

\* the start of the create of thread t is over and was taken for failed
StartTakenForFailed(t) ==
    /\ ctx[t].op = "create" /\ ctx[t].linked
    /\ ~StartSucceeded(ctx[t].up)

\* what a failed start leaves: the create has returned with status error,
\* the containers were never listed and replication was never configured
WentToFailed(t) ==
    /\ pc[t] = "done"
    /\ ~ctx[t].polled /\ ~ctx[t].wiring
    /\ ctx[t].cmds[Len(ctx[t].cmds)] = <<"docker compose up">>
    /\ ~ctx[t].result.success
    /\ ctx[t].env_data.status = "error"
    /\ environments[ctx[t].env_data.id].status = "error"

\* the record of thread t carries the hint of a port conflict
HasPortConflictHint(t) ==
    LET error == environments[ctx[t].env_data.id].error
    IN  error # <<>> /\ error[1] = "Port conflict detected."

\* C25 as stated: a start that exits nonzero, or whose stderr has the
\* signature of a port conflict, takes create to Failed at once, with the
\* hint exactly when the signature is there
C25_NonzeroOrSignatureFails ==
    \A t \in Threads :
        (ctx[t].op = "create" /\ ctx[t].linked) =>
            /\ (~ctx[t].up.success \/ PortConflictSignature(ctx[t].up.stderr))
                   => WentToFailed(t)
            /\ HasPortConflictHint(t) <=> PortConflictSignature(ctx[t].up.stderr)

\* C25: a start that did not succeed takes create to Failed at once: status
\* error, no listing of the containers, no wiring, and the hint of a port
\* conflict exactly when its stderr has the signature; a start that
\* succeeded is not failed by what its stderr holds, and carries no hint
C25_FailedStartGoesToFailed ==
    \A t \in Threads :
        (ctx[t].op = "create" /\ ctx[t].linked) =>
            IF ctx[t].up.success
            THEN /\ ~HasPortConflictHint(t)
                 /\ pc[t] = "poll" \/ ctx[t].polled
            ELSE /\ WentToFailed(t)
                 /\ HasPortConflictHint(t) <=> PortConflictSignature(ctx[t].up.stderr)

\* a start that failed on a text that holds 'port' but not 'address already
\* in use', and was recorded with the hint
C25_Witness ==
    \E t \in Threads :
        /\ StartTakenForFailed(t)
        /\ ctx[t].up.stderr = "port"
        /\ WentToFailed(t)
        /\ HasPortConflictHint(t)

\* the command carries the flag of that name
HasFlag(command, name) == \E k \in DOMAIN command : command[k][1] = name

\* C26 as stated: the command of a mysql or percona server depends on the
\* major version, with the flag that enforces GTID consistency from 8 on
\* and without it below 8
C26_EnforcementFromVersion8 ==
    (aResult.called /\ aArgs.db_type \in {"mysql", "percona"}) =>
        \A k \in DOMAIN aResult.services :
            HasFlag(aResult.services[k].command, "--enforce-gtid-consistency")
                <=> VersionMajor(aArgs.version) >= 8

\* C26: the startup command is selected by the engine and the role and not
\* by the version: the source and every replica of a mysql or percona
\* topology carry GTID mode with the flag that enforces GTID consistency
\* whatever the major version, those of a mariadb topology carry a GTID
\* domain id and no such flag, and the version only reaches the image
C26_CommandByEngineAndRoleOnly ==
    aResult.called =>
        \A k \in DOMAIN aResult.services :
            LET service == aResult.services[k]
            IN  /\ service.image[2] = aArgs.version
                /\ HasFlag(service.command, "--enforce-gtid-consistency")
                       <=> aArgs.db_type \in {"mysql", "percona"}
                /\ HasFlag(service.command, "--gtid-mode")
                       <=> aArgs.db_type \in {"mysql", "percona"}
                /\ HasFlag(service.command, "--gtid-domain-id")
                       <=> aArgs.db_type = "mariadb"
                /\ HasFlag(service.command, "--read-only") <=> service.role = "replica"
                /\ HasFlag(service.command, "--relay-log") <=> service.role = "replica"
                /\ HasFlag(service.command, "--log-bin")

\* a percona topology of version 5.7 with two replicas, all of whose
\* servers carry the enforcement flag
C26_Witness ==
    /\ aResult.called
    /\ aArgs.db_type = "percona"
    /\ VersionMajor(aArgs.version) < 8
    /\ aArgs.replica_count = 2
    /\ \A k \in 1..3 : HasFlag(aResult.services[k].command, "--enforce-gtid-consistency")

\* the server-ids a command carries, by their place in it
ServerIdFlags(command) == {k \in DOMAIN command : command[k][1] = "--server-id"}

\* the server-id of a command that carries exactly one
ServerIdOf(command) == command[CHOOSE k \in ServerIdFlags(command) : TRUE][2]

\* C27: for every engine and every replica_count from 1 to 10 the source of
\* the topology has server-id 1 and replica i has server-id i + 1, every
\* service carries exactly one server-id, and no two services of one
\* topology have the same
C27_ServerIdsAreIndexPlusOne ==
    aResult.called =>
        LET services == aResult.services
        IN  /\ Len(services) = 1 + aArgs.replica_count
            /\ \A k \in DOMAIN services :
                   /\ Cardinality(ServerIdFlags(services[k].command)) = 1
                   /\ ServerIdOf(services[k].command) = services[k].index + 1
            /\ services[1].role = "source" /\ ServerIdOf(services[1].command) = 1
            /\ \A i \in 1..aArgs.replica_count :
                   /\ services[i + 1].role = "replica"
                   /\ services[i + 1].index = i
                   /\ ServerIdOf(services[i + 1].command) = i + 1
            /\ \A j, k \in DOMAIN services :
                   j # k => ServerIdOf(services[j].command) # ServerIdOf(services[k].command)

\* a mariadb topology of ten replicas, whose last replica has server-id 11
C27_Witness ==
    /\ aResult.called
    /\ aArgs.db_type = "mariadb"
    /\ aArgs.replica_count = 10
    /\ ServerIdOf(aResult.services[11].command) = 11

\* C28: a delete of an id that is not in the index answers 'Environment
\* not found' and changes nothing; a delete of a known environment leaves
\* the record of every other environment as it was, and a get of the deleted
\* id then finds nothing (get answers from the index as it is)
C28_DeleteTouchesOnlyItsOwnRecord ==
    [][\A t \in Threads :
        /\ (pc[t] = "idle" /\ ctx'[t].op = "delete") =>
               LET env_id == ctx'[t].args.env_id
               IN  IF env_id \notin DOMAIN environments
                   THEN /\ ~ctx'[t].result.success
                        /\ ctx'[t].result.error = "Environment not found"
                        /\ ctx'[t].cmds = <<>>
                        /\ UNCHANGED <<environments, disk, composeFiles>>
                   ELSE /\ ctx'[t].result.success
                        /\ DOMAIN environments' = (DOMAIN environments) \ {env_id}
                        /\ \A other \in DOMAIN environments' :
                               environments'[other] = environments[other]
                        /\ disk' = disk \ {env_id}
                        /\ composeFiles \ composeFiles' \subseteq {env_id}
                        /\ composeFiles' \subseteq composeFiles
                        /\ ~Lookup(environments', env_id).success
        /\ (pc[t] = "idle" /\ ctx'[t].op = "get") =>
               /\ ctx'[t].result.success <=> ctx'[t].result.env_id \in DOMAIN environments
               /\ ctx'[t].result.success =>
                      ctx'[t].result.env_data = environments[ctx'[t].result.env_id]
               /\ UNCHANGED <<environments, disk, composeFiles>>]_vars

\* a get that finds nothing under an id that was stored and deleted, while
\* the other environment is still there
C28_Witness ==
    \E t \in Threads :
        /\ ctx[t].op = "get" /\ pc[t] = "done"
        /\ ~ctx[t].result.success
        /\ ctx[t].result.env_id = EnvId("mysql", "8.0", "", 0)
        /\ DOMAIN environments = {EnvId("mysql", "8.0", "", 1)}

====
